---- MODULE Spec2Model ----
(***************************************************************************)
(* Risk/reward engine of the stock market analyzer (src/analysis.py):      *)
(* analyse_risk, get_rating, estimate_success_probability and              *)
(* calculate_risk_reward, as a state machine over one process whose only   *)
(* state that outlives a call is NumPy's process-global random generator.  *)
(*                                                                         *)
(* Numbers.  A Python/NumPy float is modelled by its exact real value,     *)
(* (n/d) * 2^e with n, d odd and coprime (Q below), or by NaN.  The        *)
(* standard deviation is kept as its square.  The exponent keeps a 30-step *)
(* price path of halvings and doublings inside the integer range.          *)
(***************************************************************************)
EXTENDS Integers, Sequences, FiniteSets, TLC

----------------------------------------------------------------------------
(* Exact arithmetic on (n/d) * 2^e *)

Abs(x) == IF x < 0 THEN -x ELSE x

MinInt(x, y) == IF x <= y THEN x ELSE y

Pow2(k) == 2 ^ k

RECURSIVE GCD(_, _)
GCD(a, b) == IF b = 0 THEN a ELSE GCD(b, a % b)

RECURSIVE TwoExp(_)
TwoExp(x) == IF x = 0 \/ x % 2 = 1 THEN 0 ELSE 1 + TwoExp(x \div 2)

\* on / od in lowest terms, with the sign sg
QLowest(sg, on, od, g, e) == [n |-> sg * (on \div g), d |-> od \div g, e |-> e]

\* The odd parts of |n| and d, the powers of two moved to the exponent
QOdd(sg, an, d, tn, td, e) ==
    QLowest(sg, an \div Pow2(tn), d \div Pow2(td),
            GCD(an \div Pow2(tn), d \div Pow2(td)), e + tn - td)

QNorm(n, d, e) ==
    IF n = 0 THEN [n |-> 0, d |-> 1, e |-> 0]
    ELSE QOdd(IF n < 0 THEN -1 ELSE 1, Abs(n), d, TwoExp(Abs(n)), TwoExp(d), e)

Q(n, d) == QNorm(n, d, 0)

QInt(n) == QNorm(n, 1, 0)

QZero == QInt(0)

QOne == QInt(1)

QMul(a, b) == QNorm(a.n * b.n, a.d * b.d, a.e + b.e)

\* b is not zero
QDiv(a, b) ==
    QNorm((IF b.n < 0 THEN -1 ELSE 1) * a.n * b.d, a.d * Abs(b.n), a.e - b.e)

\* a + b over the common exponent m
QAddAt(a, b, m) ==
    QNorm(a.n * Pow2(a.e - m) * b.d + b.n * Pow2(b.e - m) * a.d, a.d * b.d, m)

QAdd(a, b) ==
    IF a.n = 0 THEN b
    ELSE IF b.n = 0 THEN a
    ELSE QAddAt(a, b, MinInt(a.e, b.e))

QNeg(a) == [a EXCEPT !.n = -a.n]

QSub(a, b) == QAdd(a, QNeg(b))

QAbs(a) == [a EXCEPT !.n = Abs(a.n)]

\* l * 2^le < r * 2^re for integers l, r >= 1, without forming the products
PosLtBy(l, r, k) ==
    IF k >= 0
    THEN IF k >= 30 THEN FALSE
         ELSE l < ((r + Pow2(k) - 1) \div Pow2(k))
    ELSE IF -k >= 30 THEN TRUE
         ELSE (l \div Pow2(-k)) < r

PosLt(l, le, r, re) == PosLtBy(l, r, le - re)

\* l * 2^le < r * 2^re for any integers l, r
SignedLt(l, le, r, re) ==
    IF l <= 0 \/ r <= 0
    THEN IF l < 0 /\ r < 0 THEN PosLt(-r, re, -l, le)
         ELSE l < r
    ELSE PosLt(l, le, r, re)

QLt(a, b) == SignedLt(a.n * b.d, a.e, b.n * a.d, b.e)

QLe(a, b) == ~QLt(b, a)

----------------------------------------------------------------------------
(* Floats that may be NaN or carry a square root: q + g * sqrt(s), g = +-1 *)

NaN == [nan |-> TRUE, q |-> QZero, g |-> 1, s |-> QZero]

RQ(x) == [nan |-> FALSE, q |-> x, g |-> 1, s |-> QZero]

RSqrt(x) == [nan |-> FALSE, q |-> QZero, g |-> 1, s |-> x]

\* a > c for a float a and an exact c; every comparison with NaN is False
\* sqrt(s) > t and sqrt(s) < t for exact t and s >= 0
SqrtGt(s, t) == QLt(t, QZero) \/ QLt(QMul(t, t), s)

SqrtLt(s, t) == QLt(QZero, t) /\ QLt(s, QMul(t, t))

RGt(a, c) ==
    IF a.nan THEN FALSE
    ELSE IF a.s = QZero THEN QLt(c, a.q)
    ELSE IF a.g = 1 THEN SqrtGt(a.s, QSub(c, a.q))
    ELSE SqrtLt(a.s, QSub(a.q, c))

\* a < c
RLt(a, c) ==
    IF a.nan THEN FALSE
    ELSE IF a.s = QZero THEN QLt(a.q, c)
    ELSE IF a.g = 1 THEN SqrtLt(a.s, QSub(c, a.q))
    ELSE SqrtGt(a.s, QSub(a.q, c))

RIsZero(a) == ~a.nan /\ a.q = QZero /\ a.s = QZero

\* a / c and a + c for an exact c (c > 0 in RScale)
RScale(a, c) ==
    IF a.nan THEN NaN
    ELSE [nan |-> FALSE, q |-> QDiv(a.q, c), g |-> a.g, s |-> QDiv(a.s, QMul(c, c))]

RPlus(a, c) == IF a.nan THEN NaN ELSE [a EXCEPT !.q = QAdd(a.q, c)]

\* Python's min(a, b) with b exact: b if b < a else a, so a NaN a is returned
PyMin(a, b) == IF RGt(a, b) THEN RQ(b) ELSE a

----------------------------------------------------------------------------
(* Series helpers (pandas) *)

RECURSIVE QSum(_)
QSum(xs) == IF xs = <<>> THEN QZero ELSE QAdd(Head(xs), QSum(Tail(xs)))

\* Series.mean() of a non-empty series
Mean(xs) == QDiv(QSum(xs), QInt(Len(xs)))

\* xs[-k:], Python's slice: the last k items, all of them when k = 0 or k > len,
\* and xs[|k|:] for a negative k
PyTail(xs, k) ==
    LET from == IF k > 0 THEN (IF k >= Len(xs) THEN 1 ELSE Len(xs) - k + 1)
                ELSE MinInt(-k, Len(xs)) + 1
    IN  SubSeq(xs, from, Len(xs))

\* The dict's entries whose date is the smallest not yet placed, then the rest
RECURSIVE SortIndex(_)
SortIndex(ts) ==
    IF ts = <<>> THEN <<>>
    ELSE LET i == CHOOSE j \in 1..Len(ts) : \A k \in 1..Len(ts) : ts[j].date <= ts[k].date
         IN  <<ts[i]>> \o SortIndex(SubSeq(ts, 1, i - 1) \o SubSeq(ts, i + 1, Len(ts)))

\* stock_data.get("Time Series (Daily)", {})
TimeSeries(stock_data) == IF stock_data.has_ts THEN stock_data.ts ELSE <<>>

Closes(df) == [i \in 1..Len(df) |-> df[i].close]

Volumes(df) == [i \in 1..Len(df) |-> df[i].volume]

\* closes.pct_change().dropna(): closes[i+1] / closes[i] - 1
PctChange(closes) ==
    [i \in 1..(Len(closes) - 1) |-> QSub(QDiv(closes[i + 1], closes[i]), QOne)]

\* Series.std() squared (ddof = 1): NaN for fewer than two values
QSquare(x) == QMul(x, x)

\* The squared deviations of xs from m
SquaredDeviations(xs, m) == [i \in 1..Len(xs) |-> QSquare(QSub(xs[i], m))]

Variance(xs) ==
    IF Len(xs) < 2 THEN NaN
    ELSE RQ(QDiv(QSum(SquaredDeviations(xs, Mean(xs))), QInt(Len(xs) - 1)))

----------------------------------------------------------------------------
(* analyse_risk *)

TradingDays == 252

RecentBars == 20

RsiWindow == 14

VolatilityCap == Q(1, 2)

DrawdownCap == Q(3, 10)

LiquidityCap == Q(7, 10)

BearishCap == Q(3, 10)

VolumeThreshold == Q(1, 20)

\* Python's None, kept apart from every number by its zero denominator
None == [n |-> 0, d |-> 0, e |-> 0]

\* `not time_series`
IsEmpty(time_series) == Len(time_series) = 0

\* daily_returns.std() * np.sqrt(252)
Annualise(var) == IF var.nan THEN NaN ELSE RSqrt(QMul(var.q, QInt(TradingDays)))

Volatility(daily_returns) == Annualise(Variance(daily_returns))

\* min(raw / cap, 1.0)
Normalise(raw, cap) == PyMin(RScale(raw, cap), QOne)

\* 1 - recent_volume / avg_volume, scaled by 1 + user_volume / recent_volume when
\* the order is more than 5% of the recent volume
UserVolumeScaled(liquidity_risk, user_volume, user_volume_pct) ==
    IF user_volume # None /\ QLt(VolumeThreshold, user_volume_pct)
    THEN QMul(liquidity_risk, QAdd(QOne, user_volume_pct))
    ELSE liquidity_risk

LiquidityOf(avg_volume, recent_volume, user_volume) ==
    UserVolumeScaled(QSub(QOne, QDiv(recent_volume, avg_volume)), user_volume,
                     IF user_volume # None THEN QDiv(user_volume, recent_volume)
                     ELSE None)

LiquidityRisk(volumes, user_volume) ==
    LiquidityOf(Mean(volumes), Mean(PyTail(volumes, RecentBars)), user_volume)

\* delta.where(delta > 0, 0): the first delta is NaN, so its gain is 0
Gain(closes) ==
    [i \in 1..Len(closes) |->
        IF i > 1 /\ QLt(closes[i - 1], closes[i])
        THEN QSub(closes[i], closes[i - 1]) ELSE QZero]

\* -delta.where(delta < 0, 0)
Loss(closes) ==
    [i \in 1..Len(closes) |->
        IF i > 1 /\ QLt(closes[i], closes[i - 1])
        THEN QSub(closes[i - 1], closes[i]) ELSE QZero]

\* xs.rolling(window=14, min_periods=1).mean() at position i
RollingMean(xs, i) ==
    Mean(SubSeq(xs, IF i > RsiWindow THEN i - RsiWindow + 1 ELSE 1, i))

\* rsi[i] < 30, False where the rolling loss is 0 (rs is NaN there)
Rsi(avg_gain, avg_loss) ==
    QSub(QInt(100), QDiv(QInt(100), QAdd(QOne, QDiv(avg_gain, avg_loss))))

RsiOf(avg_gain, avg_loss) == avg_loss # QZero /\ QLt(Rsi(avg_gain, avg_loss), QInt(30))

RsiBelow30(gain, loss, i) == RsiOf(RollingMean(gain, i), RollingMean(loss, i))

BearishCount(gain, loss) ==
    Cardinality({i \in 1..Len(gain) : RsiBelow30(gain, loss, i)})

\* (rsi < 30).mean()
BearishFrequency(closes) ==
    Q(BearishCount(Gain(closes), Loss(closes)), Len(closes))

\* HIGH / MEDIUM / LOW on the average of the four normalised scores; a NaN
\* average compares False twice and gives LOW
LevelOf(avg) ==
    IF RGt(avg, Q(7, 10)) THEN "HIGH"
    ELSE IF RGt(avg, Q(4, 10)) THEN "MEDIUM"
    ELSE "LOW"

RiskLevel(norm_volatility, norm_drawdown, norm_liquidity, norm_bearish) ==
    LevelOf(RScale(RPlus(norm_volatility,
                         QAdd(norm_drawdown.q, QAdd(norm_liquidity.q, norm_bearish.q))),
                   QInt(4)))

\* Lines 48, 52, 70, 92: the four scores next to their raw values
Scores(current_price, recent_volume, volatility, drawdown, liquidity_risk, bearish_freq) ==
    [current_price |-> current_price,
     recent_volume |-> recent_volume,
     volatility |-> volatility,
     drawdown |-> drawdown,
     liquidity_risk |-> liquidity_risk,
     bearish_freq |-> bearish_freq,
     norm_volatility |-> Normalise(volatility, VolatilityCap),
     norm_drawdown |-> Normalise(RQ(drawdown), DrawdownCap),
     norm_liquidity |-> Normalise(RQ(liquidity_risk), LiquidityCap),
     norm_bearish |-> Normalise(RQ(bearish_freq), BearishCap)]

\* (current_price - stop_loss) / current_price
Drawdown(current_price, stop_loss) ==
    QDiv(QSub(current_price, stop_loss), current_price)

\* Lines 39-92 on the two columns of the sorted frame
Metrics(closes, volumes, stop_loss, user_volume) ==
    Scores(closes[Len(closes)],
           Mean(PyTail(volumes, RecentBars)),
           Volatility(PctChange(closes)),
           Drawdown(closes[Len(closes)], stop_loss),
           LiquidityRisk(volumes, user_volume),
           BearishFrequency(closes))

Columns(df, stop_loss, user_volume) ==
    Metrics(Closes(df), Volumes(df), stop_loss, user_volume)

\* The locals of analyse_risk after line 92, for a non-empty series
RiskLocals(time_series, stop_loss, user_volume) ==
    Columns(SortIndex(time_series), stop_loss, user_volume)

\* An exception inside the try block: Python's float division by a zero price
RiskRaises(time_series) ==
    \E i \in 1..Len(time_series) :
        /\ \A k \in 1..Len(time_series) : time_series[k].date <= time_series[i].date
        /\ time_series[i].close = QZero

\* A variant that answers with a report of default numbers instead of an error
DefaultReport(msg) ==
    [symbol |-> "Unknown", current_price |-> QZero,
     risk_analysis |-> [volatility |-> RQ(QZero), risk_level |-> "LOW"]]

ErrorResult(msg) == [error |-> msg]

\* Lines 131-149: the dict returned, the radar chart as the four values it draws
RiskReport(l, target_selling_price, stop_loss, user_volume) ==
    [symbol |-> "Unknown",
     current_price |-> l.current_price,
     target_selling_price |-> target_selling_price,
     stop_loss |-> stop_loss,
     user_volume |-> user_volume,
     recent_avg_volume |-> l.recent_volume,
     volume_impact |->
         IF user_volume # None /\ user_volume # QZero
         THEN QDiv(user_volume, l.recent_volume) ELSE None,
     risk_analysis |->
         [volatility |-> l.volatility,
          drawdown_risk |-> l.drawdown,
          liquidity_risk |-> l.liquidity_risk,
          bearish_frequency |-> l.bearish_freq,
          risk_level |-> RiskLevel(l.norm_volatility, l.norm_drawdown,
                                   l.norm_liquidity, l.norm_bearish)],
     plot |-> [volatility |-> l.norm_volatility,
               drawdown |-> l.norm_drawdown,
               liquidity |-> l.norm_liquidity,
               bearish |-> l.norm_bearish]]

\* The try block on the series taken from the dict
RiskOf(time_series, target_selling_price, stop_loss, user_volume) ==
    IF IsEmpty(time_series) THEN ErrorResult("No time series data available")
    ELSE IF RiskRaises(time_series)
    THEN ErrorResult("Error in risk analysis: float division by zero")
    ELSE RiskReport(RiskLocals(time_series, stop_loss, user_volume),
                    target_selling_price, stop_loss, user_volume)

\* The dict analyse_risk returns
AnalyseRisk(stock_data, target_selling_price, stop_loss, user_volume) ==
    RiskOf(TimeSeries(stock_data), target_selling_price, stop_loss, user_volume)

----------------------------------------------------------------------------
(* get_rating *)

\* A variant whose tiers also take the values that lie on a threshold
GetRatingInclusive(sharpe, rr_ratio) ==
    IF ~RLt(sharpe, Q(3, 2)) /\ ~RLt(rr_ratio, QInt(2)) THEN "EXCELLENT"
    ELSE IF ~RLt(sharpe, QOne) /\ ~RLt(rr_ratio, Q(3, 2)) THEN "GOOD"
    ELSE IF ~RLt(sharpe, Q(1, 2)) /\ ~RLt(rr_ratio, QOne) THEN "FAIR"
    ELSE "WEAK"

GetRating(sharpe, rr_ratio) ==
    IF RGt(sharpe, Q(3, 2)) /\ RGt(rr_ratio, QInt(2)) THEN "EXCELLENT"
    ELSE IF RGt(sharpe, QOne) /\ RGt(rr_ratio, Q(3, 2)) THEN "GOOD"
    ELSE IF RGt(sharpe, Q(1, 2)) /\ RGt(rr_ratio, QOne) THEN "FAIR"
    ELSE "WEAK"

----------------------------------------------------------------------------
(* estimate_success_probability *)

PathLength == 30

DefaultSimulations == 1000

DefaultLookback == 60

MinReturns == 5

\* np.random's process-global generator: a deterministic step on a hidden
\* state that every draw advances (here a 16-bit linear congruential generator)
RngModulus == 65536

RngMultiplier == 25173

RngIncrement == 13849

RngNext(s) == (RngMultiplier * s + RngIncrement) % RngModulus

\* a position in 1..n, uniform in the state
RngIndex(s, n) == ((s * n) \div RngModulus) + 1

\* np.random.choice(xs, size): size draws with replacement, and the state after
RECURSIVE RandomChoice(_, _, _)
RandomChoice(xs, size, s) ==
    IF size = 0 THEN [values |-> <<>>, rng |-> s]
    ELSE LET s1 == RngNext(s)
             rest == RandomChoice(xs, size - 1, s1)
         IN  [values |-> <<xs[RngIndex(s1, Len(xs))]>> \o rest.values,
              rng |-> rest.rng]

RECURSIVE CumProdFrom(_, _)
CumProdFrom(acc, rs) ==
    IF rs = <<>> THEN <<>>
    ELSE LET p == QMul(acc, QAdd(QOne, Head(rs)))
         IN  <<p>> \o CumProdFrom(p, Tail(rs))

\* entry_price * (1 + random_returns).cumprod(): the 30 simulated prices
PricePath(entry_price, random_returns) == CumProdFrom(entry_price, random_returns)

QMax(a, b) == IF QLt(a, b) THEN b ELSE a

QMin(a, b) == IF QLt(b, a) THEN b ELSE a

\* The largest and the smallest of path[lo..hi], by halves
RECURSIVE MaxIn(_, _, _)
MaxIn(path, lo, hi) ==
    IF lo = hi THEN path[lo]
    ELSE QMax(MaxIn(path, lo, (lo + hi) \div 2), MaxIn(path, ((lo + hi) \div 2) + 1, hi))

RECURSIVE MinIn(_, _, _)
MinIn(path, lo, hi) ==
    IF lo = hi THEN path[lo]
    ELSE QMin(MinIn(path, lo, (lo + hi) \div 2), MinIn(path, ((lo + hi) \div 2) + 1, hi))

\* ndarray.max() and ndarray.min() of a non-empty path
PathMax(path) == MaxIn(path, 1, Len(path))

PathMin(path) == MinIn(path, 1, Len(path))

\* A variant that counts a path reaching the target twice
TrialHitTwice(price_path, entry_price, target_price, stop_loss) ==
    IF QLe(target_price, PathMax(price_path)) THEN 2
    ELSE IF QLe(PathMin(price_path), stop_loss) THEN 0
    ELSE IF QLt(entry_price, price_path[Len(price_path)]) THEN 1
    ELSE 0

\* A variant that tests the stop before the target
TrialHitStopFirst(price_path, entry_price, target_price, stop_loss) ==
    IF QLe(PathMin(price_path), stop_loss) THEN 0
    ELSE IF QLe(target_price, PathMax(price_path)) THEN 1
    ELSE IF QLt(entry_price, price_path[Len(price_path)]) THEN 1
    ELSE 0

\* A variant that counts a path ending at the entry price
TrialHitAtEntry(price_path, entry_price, target_price, stop_loss) ==
    IF QLe(target_price, PathMax(price_path)) THEN 1
    ELSE IF QLe(PathMin(price_path), stop_loss) THEN 0
    ELSE IF QLe(entry_price, price_path[Len(price_path)]) THEN 1
    ELSE 0

\* What one trial adds to hits_target
TrialHit(price_path, entry_price, target_price, stop_loss) ==
    IF QLe(target_price, PathMax(price_path)) THEN 1
    ELSE IF QLe(PathMin(price_path), stop_loss) THEN 0
    ELSE IF QLt(entry_price, price_path[Len(price_path)]) THEN 1
    ELSE 0

\* closes.pct_change().dropna()[-lookback_days:]
RecentReturns(time_series, lookback_days) ==
    PyTail(PctChange(Closes(SortIndex(time_series))), lookback_days)

\* A variant that also falls back on exactly five returns
UseDefaultAtFive(stock_data, lookback_days) ==
    \/ Len(TimeSeries(stock_data)) = 0
    \/ Len(PyTail(PctChange(Closes(SortIndex(TimeSeries(stock_data)))), lookback_days))
           <= MinReturns

\* The two early returns of 0.5
UseDefault(stock_data, lookback_days) ==
    \/ IsEmpty(TimeSeries(stock_data))
    \/ Len(RecentReturns(TimeSeries(stock_data), lookback_days)) < MinReturns

DefaultProbability == Q(1, 2)

----------------------------------------------------------------------------
(* calculate_risk_reward *)

HoldingPeriodDays == 30

RiskFreeRate == Q(4, 100)

\* "error" in risk_result
HasError(d) == "error" \in DOMAIN d

\* target_price / current_price - 1
PotentialReturn(target_price, current_price) ==
    QSub(QDiv(target_price, current_price), QOne)

\* potential_return_pct * (252 / holding_period_days)
AnnualizedReturn(potential_return_pct) ==
    QMul(potential_return_pct, Q(TradingDays, HoldingPeriodDays))

\* Python raises ZeroDivisionError on a float division by 0.0 (NaN divides)
SharpeRaises(volatility) == RIsZero(volatility)

\* (annualized_return - risk_free_rate) / volatility, volatility not 0:
\* x / sqrt(v) = sign(x) * sqrt(x^2 / v)
OverSqrt(x, volatility) ==
    IF volatility.nan THEN NaN
    ELSE [nan |-> FALSE, q |-> QZero, g |-> IF x.n < 0 THEN -1 ELSE 1,
          s |-> QDiv(QMul(x, x), volatility.s)]

SharpeRatio(annualized_return, volatility) ==
    OverSqrt(QSub(annualized_return, RiskFreeRate), volatility)

\* Lines 242-250: the locals of calculate_risk_reward up to the Sharpe ratio
RewardLocals(current_price, volatility, target_price) ==
    [current_price |-> current_price,
     potential_return_pct |-> PotentialReturn(target_price, current_price),
     annualized_return |->
         AnnualizedReturn(PotentialReturn(target_price, current_price)),
     sharpe_ratio |->
         SharpeRatio(AnnualizedReturn(PotentialReturn(target_price, current_price)),
                     volatility)]

\* (1 - success_prob) * abs(stop_loss / current_price - 1)
RatioDenominator(success_prob, stop_loss, current_price) ==
    QMul(QSub(QOne, success_prob), QAbs(QSub(QDiv(stop_loss, current_price), QOne)))

RatioRaises(success_prob, stop_loss, current_price) ==
    RatioDenominator(success_prob, stop_loss, current_price) = QZero

RiskRewardRatio(success_prob, potential_return_pct, stop_loss, current_price) ==
    QDiv(QMul(success_prob, potential_return_pct),
         RatioDenominator(success_prob, stop_loss, current_price))

\* {**risk_result, "reward_analysis": {...}}
CombinedReport(risk_report, sharpe_ratio, annualized_return, risk_reward_ratio, success_prob) ==
    [reward_analysis |->
        [sharpe_ratio |-> sharpe_ratio,
         annualized_return_pct |-> QMul(annualized_return, QInt(100)),
         risk_reward_ratio |-> risk_reward_ratio,
         success_probability |-> success_prob,
         rating |-> GetRating(sharpe_ratio, RQ(risk_reward_ratio))]] @@ risk_report

----------------------------------------------------------------------------
(* Inputs *)

MaxBars == 7

LongBars == 22

MaxSimulations == 2

MaxCalls == 2

NumSeeds == 2

ScenarioTrials == 2000

ScenarioBars == 30

BaseClose == QInt(100)

Steps == {-1, 0, 1}

\* Step patterns of the closes: each bar doubles, keeps or halves the close,
\* and two bars in a row at most double or halve it
StepPatterns == {pat \in [1..2 -> Steps] : pat[1] + pat[2] \in Steps}

RECURSIVE StepSum(_, _)
StepSum(pat, j) ==
    IF j = 0 THEN 0 ELSE pat[((j - 1) % Len(pat)) + 1] + StepSum(pat, j - 1)

CloseAt(pat, i) == QMul(BaseClose, [n |-> 1, d |-> 1, e |-> StepSum(pat, i - 1)])

\* The provider's dict: newest bar first, dates 1..len, the volume of the bars
\* older than the last 20 set apart
StockData(pat, len, old_volume) ==
    [has_ts |-> TRUE,
     ts |-> [k \in 1..len |->
               LET i == len + 1 - k
               IN  [date |-> i,
                    close |-> CloseAt(pat, i),
                    volume |-> IF i <= len - RecentBars
                               THEN old_volume ELSE QInt(1000)]]]

NoTimeSeries == [has_ts |-> FALSE, ts |-> <<>>]

\* Patterns that return to the first close: the long series use these only
LevelPatterns == {pat \in StepPatterns : StepSum(pat, Len(pat)) = 0}

OldVolumes == {QInt(1000), QInt(2000), QInt(500)}

\* For the simulator only the closes matter
PlainStockData ==
    {NoTimeSeries}
    \cup {StockData(pat, len, QInt(1000)) : pat \in StepPatterns, len \in 0..MaxBars}
    \cup {StockData(pat, LongBars, QInt(1000)) : pat \in LevelPatterns}

AllStockData ==
    PlainStockData
    \cup {StockData(pat, LongBars, v) : pat \in LevelPatterns, v \in OldVolumes}

\* Patterns whose closes rise from the first close
RisingPatterns == {pat \in StepPatterns : StepSum(pat, Len(pat)) = 1}

\* Rising series of ScenarioBars bars with a volume of 1000 on every bar
ScenarioStockData ==
    {StockData(pat, ScenarioBars, QInt(1000)) : pat \in RisingPatterns}

TargetPrices == {QInt(100), QInt(400)}

\* A target a cent above the entry price, for the level series
CentAbove == Q(10001, 100)

StopLosses == {QInt(50), QInt(100), QInt(200)}

UserVolumes == {None, QZero, QInt(5000), QInt(10000)}

LookbackDays == {4, 5, DefaultLookback}

\* n_simulations of the simulator called on its own
TrialCounts == {1, MaxSimulations}

\* A level series of MaxBars bars: every daily return is exactly zero
LevelStockData == StockData([i \in 1..2 |-> 0], MaxBars, QInt(1000))

Input(op, sd, target, stop, uv, entry, n, lookback) ==
    [op |-> op, stock_data |-> sd, target_price |-> target, stop_loss |-> stop,
     user_volume |-> uv, entry_price |-> entry, n_simulations |-> n,
     lookback_days |-> lookback, sharpe |-> NaN, rr_ratio |-> NaN]

\* Arguments of get_rating: the thresholds, values between and beyond them, nan
RatingValues ==
    {NaN} \cup {RQ(x) : x \in {QInt(-1), QZero, Q(1, 2), Q(3, 4), QOne, Q(5, 4),
                               Q(3, 2), Q(7, 4), QInt(2), QInt(3)}}

RatingInput(sharpe, rr_ratio) ==
    [Input("get_rating", NoTimeSeries, None, None, None, None, 0, 0)
        EXCEPT !.sharpe = sharpe, !.rr_ratio = rr_ratio]

Inputs ==
    {Input("analyse_risk", sd, QInt(400), stop, uv, None, 0, 0) :
        sd \in AllStockData \cup ScenarioStockData, stop \in StopLosses,
        uv \in UserVolumes}
    \cup
    {Input("estimate_success_probability", sd, target, stop, None, QInt(100), n, lb) :
        sd \in PlainStockData, target \in TargetPrices, stop \in StopLosses,
        n \in TrialCounts, lb \in LookbackDays}
    \cup
    {Input("estimate_success_probability", LevelStockData, CentAbove, QInt(50),
           None, QInt(100), n, lb) : n \in TrialCounts, lb \in {5, DefaultLookback}}
    \cup
    {Input("estimate_success_probability", LevelStockData, CentAbove, QInt(50),
           None, QInt(100), ScenarioTrials, DefaultLookback)}
    \cup
    {Input("calculate_risk_reward", sd, target, stop, uv, None, 0, 0) :
        sd \in AllStockData, target \in TargetPrices, stop \in StopLosses,
        uv \in {None, QInt(5000)}}
    \cup
    {RatingInput(sharpe, rr_ratio) :
        sharpe \in RatingValues, rr_ratio \in RatingValues}

SeedStates == {(k * RngModulus) \div NumSeeds : k \in 0..(NumSeeds - 1)}

----------------------------------------------------------------------------
(* The process *)

VARIABLES
    inp,          \* the request: the operation called and its arguments
    rng,          \* state of the process-global random generator
    pc,           \* where the call stands
    calls,        \* calls completed before this one
    risk_result,  \* calculate_risk_reward: what analyse_risk returned
    reward,       \* calculate_risk_reward: its locals
    sim,          \* estimate_success_probability: its arguments and locals
    result,       \* how the call ended: the value returned or the exception
    prev          \* how the previous call ended

vars == <<inp, rng, pc, calls, risk_result, reward, sim, result, prev>>

NoDict == [unset |-> TRUE]

NoResult == [outcome |-> "none", value |-> NoDict]

Returned(v) == [outcome |-> "returned", value |-> v]

Raised(exc) == [outcome |-> "raised", value |-> [exception |-> exc]]

NoSim == [entry_price |-> None, target_price |-> None, stop_loss |-> None,
          n_simulations |-> 0, recent_returns |-> <<>>, trials |-> 0,
          hits_target |-> 0, random_returns |-> <<>>, price_path |-> <<>>,
          simulated |-> FALSE,
          success_prob |-> None]

Init ==
    /\ inp \in Inputs
    /\ rng \in SeedStates
    /\ pc = "idle"
    /\ calls = 0
    /\ risk_result = NoDict
    /\ reward = NoDict
    /\ sim = NoSim
    /\ result = NoResult
    /\ prev = NoResult

\* Lines 181-194: the early returns of 0.5, or the loop entered with no hit
EnterSimulation(stock_data, entry_price, target_price, stop_loss, n_simulations, lookback_days) ==
    LET args == [NoSim EXCEPT !.entry_price = entry_price,
                              !.target_price = target_price,
                              !.stop_loss = stop_loss,
                              !.n_simulations = n_simulations]
    IN  IF UseDefault(stock_data, lookback_days)
        THEN [args EXCEPT !.success_prob = DefaultProbability]
        ELSE [args EXCEPT !.simulated = TRUE,
                          !.recent_returns =
                              RecentReturns(TimeSeries(stock_data), lookback_days)]

\* analyse_risk called on its own
CallAnalyseRisk ==
    /\ pc = "idle"
    /\ inp.op = "analyse_risk"
    /\ result' = Returned(AnalyseRisk(inp.stock_data, inp.target_price,
                                      inp.stop_loss, inp.user_volume))
    /\ pc' = "done"
    /\ UNCHANGED <<inp, rng, calls, risk_result, reward, sim, prev>>

\* estimate_success_probability called on its own, up to the loop
CallEstimate ==
    /\ pc = "idle"
    /\ inp.op = "estimate_success_probability"
    /\ LET s == EnterSimulation(inp.stock_data, inp.entry_price, inp.target_price,
                                inp.stop_loss, inp.n_simulations, inp.lookback_days)
       IN  /\ sim' = s
           /\ IF s.simulated
              THEN pc' = "loop" /\ result' = result
              ELSE pc' = "done" /\ result' = Returned(s.success_prob)
    /\ UNCHANGED <<inp, rng, calls, risk_result, reward, prev>>

\* One pass of `for _ in range(n_simulations)`
Trial ==
    /\ pc = "loop"
    /\ sim.trials < sim.n_simulations
    /\ LET draw == RandomChoice(sim.recent_returns, PathLength, rng)
           price_path == PricePath(sim.entry_price, draw.values)
       IN  /\ rng' = draw.rng
           /\ sim' = [sim EXCEPT !.trials = @ + 1,
                                 !.random_returns = draw.values,
                                 !.price_path = price_path,
                                 !.hits_target = @ + TrialHit(price_path, sim.entry_price,
                                                              sim.target_price, sim.stop_loss)]
    /\ UNCHANGED <<inp, pc, calls, risk_result, reward, result, prev>>

\* The loop is exhausted: return hits_target / n_simulations
LoopExit ==
    /\ pc = "loop"
    /\ sim.trials >= sim.n_simulations
    /\ IF sim.n_simulations = 0
       THEN /\ result' = Raised("ZeroDivisionError")
            /\ pc' = "done"
            /\ sim' = sim
       ELSE /\ sim' = [sim EXCEPT !.success_prob = Q(sim.hits_target, sim.n_simulations)]
            /\ IF inp.op = "calculate_risk_reward"
               THEN pc' = "ratio" /\ result' = result
               ELSE pc' = "done" /\ result' = Returned(sim'.success_prob)
    /\ UNCHANGED <<inp, rng, calls, risk_result, reward, prev>>

\* calculate_risk_reward, lines 236-239: the risk stage and its error check
CallCalculate ==
    /\ pc = "idle"
    /\ inp.op = "calculate_risk_reward"
    /\ risk_result' = AnalyseRisk(inp.stock_data, inp.target_price, inp.stop_loss,
                                  inp.user_volume)
    /\ IF HasError(risk_result')
       THEN pc' = "done" /\ result' = Returned(risk_result')
       ELSE pc' = "sharpe" /\ result' = result
    /\ UNCHANGED <<inp, rng, calls, reward, sim, prev>>

\* Lines 242-250: the return figures and the Sharpe ratio
ComputeSharpe ==
    /\ pc = "sharpe"
    /\ IF ~({"current_price", "risk_analysis"} \subseteq DOMAIN risk_result)
       THEN /\ result' = Raised("KeyError")
            /\ pc' = "done"
            /\ reward' = reward
       ELSE IF SharpeRaises(risk_result.risk_analysis.volatility)
            THEN /\ result' = Raised("ZeroDivisionError")
                 /\ pc' = "done"
                 /\ reward' = reward
            ELSE /\ reward' = RewardLocals(risk_result.current_price,
                                           risk_result.risk_analysis.volatility,
                                           inp.target_price)
                 /\ pc' = "simulate"
                 /\ result' = result
    /\ UNCHANGED <<inp, rng, calls, risk_result, sim, prev>>

\* Lines 253-258: the simulator called with the defaults, up to its loop
Simulate ==
    /\ pc = "simulate"
    /\ LET s == EnterSimulation(inp.stock_data, reward.current_price, inp.target_price,
                                inp.stop_loss,
                                MinInt(DefaultSimulations, MaxSimulations),
                                DefaultLookback)
       IN  /\ sim' = s
           /\ pc' = IF s.simulated THEN "loop" ELSE "ratio"
    /\ UNCHANGED <<inp, rng, calls, risk_result, reward, result, prev>>

\* Lines 259-273: the risk/reward ratio and the combined report
ComputeRatio ==
    /\ pc = "ratio"
    /\ result' =
         IF RatioRaises(sim.success_prob, inp.stop_loss, reward.current_price)
         THEN Raised("ZeroDivisionError")
         ELSE Returned(CombinedReport(
                  risk_result, reward.sharpe_ratio, reward.annualized_return,
                  RiskRewardRatio(sim.success_prob, reward.potential_return_pct,
                                  inp.stop_loss, reward.current_price),
                  sim.success_prob))
    /\ pc' = "done"
    /\ UNCHANGED <<inp, rng, calls, risk_result, reward, sim, prev>>

\* get_rating called on its own
CallGetRating ==
    /\ pc = "idle"
    /\ inp.op = "get_rating"
    /\ result' = Returned(GetRating(inp.sharpe, inp.rr_ratio))
    /\ pc' = "done"
    /\ UNCHANGED <<inp, rng, calls, risk_result, reward, sim, prev>>

\* The same request again in the same process: only the generator's state and
\* the previous outcome are carried over
NextCall ==
    /\ pc = "done"
    /\ calls + 1 < MaxCalls
    /\ calls' = calls + 1
    /\ prev' = result
    /\ result' = NoResult
    /\ risk_result' = NoDict
    /\ reward' = NoDict
    /\ sim' = NoSim
    /\ pc' = "idle"
    /\ UNCHANGED <<inp, rng>>

Next ==
    \/ CallAnalyseRisk
    \/ CallEstimate
    \/ Trial
    \/ LoopExit
    \/ CallCalculate
    \/ ComputeSharpe
    \/ Simulate
    \/ ComputeRatio
    \/ CallGetRating
    \/ NextCall

Spec == Init /\ [][Next]_vars

----------------------------------------------------------------------------
(* Properties *)

\* The bars of the request's series, in the order the provider sent them
Bars == IF inp.stock_data.has_ts THEN inp.stock_data.ts ELSE <<>>

NumBars == Len(Bars)

ConstantPrices == \A i \in 1..NumBars : inp.stock_data.ts[i].close = inp.stock_data.ts[1].close

\* Daily returns inside the lookback window of a request to the simulator
AvailableReturns ==
    IF NumBars = 0 THEN 0 ELSE MinInt(NumBars - 1, inp.lookback_days)

ScenarioC ==
    /\ inp.op = "estimate_success_probability"
    /\ NumBars >= 6
    /\ ConstantPrices
    /\ inp.lookback_days >= 5
    /\ inp.entry_price = QInt(100)
    /\ inp.target_price = CentAbove
    /\ inp.stop_loss = QInt(50)

\* C1: with a missing or empty daily series, analyse_risk and
\* calculate_risk_reward both return a dict that carries "error" and nothing
\* else: no exception, no intermediate stage, no risk or reward numbers.
C1_EmptySeriesReturnsError ==
    (/\ inp.op \in {"analyse_risk", "calculate_risk_reward"}
     /\ (~inp.stock_data.has_ts \/ inp.stock_data.ts = <<>>))
    => /\ pc \in {"idle", "done"}
       /\ pc = "done" =>
            /\ result.outcome = "returned"
            /\ DOMAIN result.value = {"error"}

C1_Witness ==
    /\ inp.op = "calculate_risk_reward"
    /\ ~inp.stock_data.has_ts
    /\ pc = "done"
    /\ result.outcome = "returned"
    /\ "error" \in DOMAIN result.value

\* C2: on a constant-price series of at least 3 bars calculate_risk_reward
\* completes and returns a report whose Sharpe field is defined (not NaN); it
\* does not raise.
C2_ConstantPriceCompletes ==
    (/\ inp.op = "calculate_risk_reward"
     /\ NumBars >= 3
     /\ ConstantPrices
     /\ pc = "done")
    => /\ result.outcome = "returned"
       /\ "reward_analysis" \in DOMAIN result.value
       /\ ~result.value.reward_analysis.sharpe_ratio.nan

\* C3: calculate_risk_reward never raises when the risk/reward denominator is
\* zero (success probability 1, or stop loss equal to the current price): it
\* returns a report containing reward_analysis.
C3_ZeroDenominatorReturns ==
    (/\ inp.op = "calculate_risk_reward"
     /\ pc = "done"
     /\ "current_price" \in DOMAIN reward
     /\ sim.success_prob # None
     /\ (sim.success_prob = QOne \/ inp.stop_loss = reward.current_price))
    => /\ result.outcome = "returned"
       /\ "reward_analysis" \in DOMAIN result.value

\* C4: a failure of any stage of calculate_risk_reward reaches the caller as
\* the return value, and what is returned is either an error alone or a full
\* report with both risk_analysis and reward_analysis.
C4_FailureIsReturnedWhole ==
    (inp.op = "calculate_risk_reward" /\ pc = "done")
    => /\ result.outcome = "returned"
       /\ \/ DOMAIN result.value = {"error"}
          \/ /\ "error" \notin DOMAIN result.value
             /\ {"risk_analysis", "reward_analysis"} \subseteq DOMAIN result.value

\* C5: throughout the trial loop 0 <= hits_target <= trials <= n_simulations;
\* the probability is in [0, 1]; a simulation ends after exactly n_simulations
\* trials with hits_target / n_simulations, which is what the call returns.
C5_ProbabilityInUnitInterval ==
    /\ 0 <= sim.hits_target
    /\ sim.hits_target <= sim.trials
    /\ sim.trials <= sim.n_simulations
    /\ sim.success_prob # None =>
         /\ QLe(QZero, sim.success_prob)
         /\ QLe(sim.success_prob, QOne)
         /\ sim.simulated =>
              /\ sim.trials = sim.n_simulations
              /\ QMul(sim.success_prob, QInt(sim.n_simulations)) = QInt(sim.hits_target)
    /\ (inp.op = "estimate_success_probability" /\ pc = "done") =>
         /\ result.outcome = "returned"
         /\ result.value = sim.success_prob

C5_Witness ==
    /\ inp.op = "estimate_success_probability"
    /\ pc = "done"
    /\ sim.simulated
    /\ sim.trials = sim.n_simulations
    /\ 0 < sim.hits_target
    /\ sim.hits_target < sim.trials
    /\ result.value = Q(sim.hits_target, sim.n_simulations)

\* C6: the same request made twice in one process, from one seed, gives the
\* same success probability (and so the same outcome of the call).
C6_SameRequestSameProbability ==
    (/\ inp.op \in {"estimate_success_probability", "calculate_risk_reward"}
     /\ calls >= 1
     /\ pc = "done")
    => result = prev

\* C7: with fewer than 5 returns in the lookback window the simulator returns
\* exactly 0.5 without a trial or a draw; with 5 or more it runs the loop, and
\* returns only after all n_simulations trials.
C7_FallbackBelowFiveReturns ==
    (inp.op = "estimate_success_probability" /\ pc # "idle")
    => IF AvailableReturns < 5
       THEN /\ pc = "done"
            /\ result = Returned(Q(1, 2))
            /\ ~sim.simulated
            /\ sim.trials = 0
            /\ sim.random_returns = <<>>
       ELSE /\ sim.simulated
            /\ pc \in {"loop", "done"}
            /\ pc = "done" => sim.trials = sim.n_simulations /\ sim.trials >= 1

C7_Witness ==
    /\ inp.op = "estimate_success_probability"
    /\ NumBars = MaxBars
    /\ inp.lookback_days = 4
    /\ pc = "done"
    /\ result = Returned(Q(1, 2))
    /\ sim.trials = 0

C9_ScenarioCReturnsZero ==
    ScenarioC
    => /\ sim.hits_target = 0
       /\ pc # "idle" => sim.simulated
       /\ pc = "done" =>
            /\ sim.trials = sim.n_simulations
            /\ result = Returned(QZero)

C9_Witness ==
    /\ ScenarioC
    /\ inp.n_simulations = ScenarioTrials
    /\ pc = "done"
    /\ sim.trials = ScenarioTrials
    /\ result = Returned(QZero)

\* C9 as stated: in scenario C with 2000 trials the probability returned is
\* approximately 1.0 (here: at least 0.99).
C9_ScenarioCReturnsOne ==
    (ScenarioC /\ inp.n_simulations = ScenarioTrials /\ pc = "done")
    => /\ result.outcome = "returned"
       /\ QLe(Q(99, 100), result.value)

\* C10: in every report of analyse_risk each of the four normalised scores is
\* <= 1.0 and equals raw / cap whenever raw / cap < 1.
C10_ScoresCapped ==
    (/\ inp.op = "analyse_risk"
     /\ pc = "done"
     /\ "risk_analysis" \in DOMAIN result.value)
    => LET raw == result.value.risk_analysis
           norm == result.value.plot
       IN  /\ ~norm.volatility.nan
           /\ ~RGt(norm.volatility, QOne)
           /\ RLt(RScale(raw.volatility, VolatilityCap), QOne)
                => norm.volatility = RScale(raw.volatility, VolatilityCap)
           /\ \A f \in {<<norm.drawdown, raw.drawdown_risk, DrawdownCap>>,
                        <<norm.liquidity, raw.liquidity_risk, LiquidityCap>>,
                        <<norm.bearish, raw.bearish_frequency, BearishCap>>} :
                /\ ~f[1].nan
                /\ QLe(f[1].q, QOne)
                /\ QLt(QDiv(f[2], f[3]), QOne) => f[1].q = QDiv(f[2], f[3])

\* The report analyse_risk gives for the request's series, target and stop
\* when the order size is user_volume
ReportFor(user_volume) ==
    AnalyseRisk(inp.stock_data, inp.target_price, inp.stop_loss, user_volume)

\* The order is more than 5% of the mean volume of the most recent 20 bars
AboveThreshold(user_volume) ==
    /\ user_volume # None
    /\ NumBars > 0
    /\ QLt(QMul(VolumeThreshold,
                Mean(PyTail([i \in 1..NumBars |-> Bars[NumBars + 1 - i].volume],
                            RecentBars))),
           user_volume)

\* C11: with the series and the stop fixed, a larger order above the 5%
\* threshold is never reported a smaller liquidity_risk than a smaller order
\* above the threshold.
C11_LiquidityMonotone ==
    (/\ inp.op = "analyse_risk"
     /\ pc = "done"
     /\ "risk_analysis" \in DOMAIN result.value
     /\ AboveThreshold(inp.user_volume))
    => \A uv2 \in UserVolumes :
         (AboveThreshold(uv2) /\ QLe(inp.user_volume, uv2))
         => QLe(result.value.risk_analysis.liquidity_risk,
                ReportFor(uv2).risk_analysis.liquidity_risk)

\* A finished analyse_risk call on a rising series of ScenarioBars bars, 1000
\* shares traded on every bar, with an order of 5000 shares
ScenarioB ==
    /\ inp.op = "analyse_risk"
    /\ pc = "done"
    /\ NumBars = ScenarioBars
    /\ \A k \in 1..NumBars : Bars[k].volume = QInt(1000)
    /\ inp.user_volume = QInt(5000)

\* C12: in scenario B the liquidity_risk reported with userVolume = 5000 is strictly
\* greater than the one reported with userVolume = 0
C12_ScenarioBStrictlyGreater ==
    ScenarioB
    => /\ "risk_analysis" \in DOMAIN result.value
       /\ QLt(ReportFor(QZero).risk_analysis.liquidity_risk,
              result.value.risk_analysis.liquidity_risk)

\* A finished analyse_risk call on a series that is too short: fewer than 2
\* bars, or the 3 bars of scenario D
TooShort ==
    /\ inp.op = "analyse_risk"
    /\ pc = "done"
    /\ inp.stock_data.has_ts
    /\ NumBars \in {0, 1, 3}

\* C13: analyse_risk returns an error result, not a report with risk scores
\* and a risk level, for every series of fewer than 2 bars and for the 3-bar
\* series of scenario D.
C13_ShortSeriesRejected ==
    TooShort
    => /\ result.outcome = "returned"
       /\ "error" \in DOMAIN result.value
       /\ "risk_analysis" \notin DOMAIN result.value

\* x > c for an argument x of get_rating
Above(x, c) == ~x.nan /\ x.s = QZero /\ QLt(c, x.q)

Excellent(sharpe, rr_ratio) == Above(sharpe, Q(3, 2)) /\ Above(rr_ratio, QInt(2))

Good(sharpe, rr_ratio) == Above(sharpe, QOne) /\ Above(rr_ratio, Q(3, 2))

Fair(sharpe, rr_ratio) == Above(sharpe, Q(1, 2)) /\ Above(rr_ratio, QOne)

\* The tiers in ascending order
Rank(rating) ==
    CASE rating = "WEAK" -> 0
      [] rating = "FAIR" -> 1
      [] rating = "GOOD" -> 2
      [] rating = "EXCELLENT" -> 3

\* y is x or above it
AtLeast(y, x) == ~x.nan /\ ~y.nan /\ QLe(x.q, y.q)

\* C14: get_rating returns EXCELLENT iff sharpe > 1.5 and ratio > 2.0, else
\* GOOD iff sharpe > 1.0 and ratio > 1.5, else FAIR iff sharpe > 0.5 and
\* ratio > 1.0, else WEAK; the comparisons are strict, and raising both
\* arguments never lowers the rating.
C14_FourTierLookup ==
    (inp.op = "get_rating" /\ pc = "done")
    => /\ result.outcome = "returned"
       /\ result.value \in {"EXCELLENT", "GOOD", "FAIR", "WEAK"}
       /\ result.value = "EXCELLENT" <=> Excellent(inp.sharpe, inp.rr_ratio)
       /\ result.value = "GOOD"
            <=> (~Excellent(inp.sharpe, inp.rr_ratio) /\ Good(inp.sharpe, inp.rr_ratio))
       /\ result.value = "FAIR"
            <=> (/\ ~Excellent(inp.sharpe, inp.rr_ratio)
                 /\ ~Good(inp.sharpe, inp.rr_ratio)
                 /\ Fair(inp.sharpe, inp.rr_ratio))
       /\ result.value = "WEAK"
            <=> (/\ ~Excellent(inp.sharpe, inp.rr_ratio)
                 /\ ~Good(inp.sharpe, inp.rr_ratio)
                 /\ ~Fair(inp.sharpe, inp.rr_ratio))
       /\ \A sharpe \in RatingValues, rr_ratio \in RatingValues :
            (AtLeast(sharpe, inp.sharpe) /\ AtLeast(rr_ratio, inp.rr_ratio))
            => Rank(GetRating(sharpe, rr_ratio)) >= Rank(result.value)

\* A sharpe exactly on the 1.5 threshold with a ratio beyond 2.0 is rated GOOD
C14_Witness ==
    /\ inp.op = "get_rating"
    /\ pc = "done"
    /\ inp.sharpe = RQ(Q(3, 2))
    /\ inp.rr_ratio = RQ(QInt(3))
    /\ result = Returned("GOOD")
====
